---- MODULE Spec2Model ----
(***************************************************************************)
(* State-machine model of the DevOps terminal agent server:               *)
(*   auth.py    AuthManager     (session registry, credential checks)      *)
(*   sandbox.py SandboxManager  (sandbox registry, policy check, history)  *)
(*   logger.py  StructuredLogger (in-memory audit buffer)                  *)
(*   server.py  the HTTP handlers, one action per handler                  *)
(*                                                                         *)
(* Text (credentials, command lines) is a sequence of chunks: a chunk is   *)
(* either a whole word ("git", "ssh-rsa") or one punctuation character     *)
(* (" ", ">", ";", ...).  strip, split, lower and substring search are      *)
(* computed on these sequences the way Python computes them on strings.    *)
(* The clock counts hours, the unit of the session lifetime; the duration  *)
(* of a command is counted in seconds.                                     *)
(***************************************************************************)
EXTENDS Integers, Sequences, FiniteSets, TLC

VARIABLES
    now,              \* datetime.utcnow() / time.time(), in hours
    running,          \* TRUE until the shutdown handler has run
    next_sid,         \* the next value secrets.token_urlsafe(32) yields
    active_sessions,  \* AuthManager.active_sessions
    active_sandboxes, \* SandboxManager.active_sandboxes
    command_history,  \* SandboxManager.command_history
    dirs,             \* session ids whose directory SANDBOX_ROOT/<id> exists
    json_logs,        \* StructuredLogger.json_logs
    inflight,         \* requests whose dependency get_current_session has
                      \* returned and whose handler has not been called yet
    resp              \* the response of the last request handled

vars == <<now, running, next_sid, active_sessions, active_sandboxes,
          command_history, dirs, json_logs, inflight, resp>>

(***************************************************************************)
(* Bounds of the model.                                                    *)
(***************************************************************************)
MaxSessions == 2
MaxLog == 5
MaxClock == 25
\* results a long-running session appends beyond the capacity of its history
MaxAppend == 2
\* records the audit buffer may have dropped before a long run ends
MaxEvicted == 2

(***************************************************************************)
(* Program constants.                                                      *)
(***************************************************************************)
SessionTTL == 24
HistoryCap == 100
DefaultHistoryLimit == 50
LogCap == 1000
MAX_EXECUTION_TIME == 30
DefaultLogLimit == 100

None == "None"
SessionIds == 1..MaxSessions

(***************************************************************************)
(* Python string operations on chunk sequences.                            *)
(***************************************************************************)
Space == " "

RECURSIVE LStrip(_)
LStrip(s) == IF s # <<>> /\ Head(s) = Space THEN LStrip(Tail(s)) ELSE s

RECURSIVE RStrip(_)
RStrip(s) ==
    IF s # <<>> /\ s[Len(s)] = Space THEN RStrip(SubSeq(s, 1, Len(s) - 1)) ELSE s

\* str.strip()
Strip(s) == RStrip(LStrip(s))

\* `pat in s` for strings: pat occurs as a contiguous run of s ("" always does)
Contains(pat, s) ==
    \E i \in 1..(Len(s) - Len(pat) + 1) : SubSeq(s, i, i + Len(pat) - 1) = pat

\* str.split(): the maximal runs of non-whitespace chunks, in order
RECURSIVE SplitFrom(_, _, _)
SplitFrom(s, cur, acc) ==
    IF s = <<>>
    THEN IF cur = <<>> THEN acc ELSE Append(acc, cur)
    ELSE IF Head(s) = Space
         THEN SplitFrom(Tail(s), <<>>, IF cur = <<>> THEN acc ELSE Append(acc, cur))
         ELSE SplitFrom(Tail(s), Append(cur, Head(s)), acc)

Split(s) == SplitFrom(s, <<>>, <<>>)

LowerChunk(c) ==
    CASE c = "RM" -> "rm"
      [] c = "GIT" -> "git"
      [] OTHER -> c

\* str.lower()
Lower(s) == [i \in 1..Len(s) |-> LowerChunk(s[i])]

NonAsciiChunks == {"\\u00e9"}

IsAscii(s) == \A i \in 1..Len(s) : s[i] \notin NonAsciiChunks

(***************************************************************************)
(* logger.py                                                               *)
(***************************************************************************)
\* log_structured trimming to the first 1000 entries, so that a full buffer
\* drops the newest record
LogStructuredKeepOldest(logs, entry) ==
    LET appended == Append(logs, entry)
    IN  IF Len(appended) > LogCap
        THEN SubSeq(appended, 1, LogCap)
        ELSE appended

\* log_structured: append, then keep only the last 1000 entries
LogStructured(logs, entry) ==
    LET appended == Append(logs, entry)
    IN  IF Len(appended) > LogCap
        THEN SubSeq(appended, Len(appended) - LogCap + 1, Len(appended))
        ELSE appended

\* audit(event, session_id, **kwargs)
Audit(logs, event, session_id, fields) ==
    LogStructured(logs, [level |-> "INFO", event |-> event, audit |-> TRUE,
                         session_id |-> session_id, fields |-> fields])

\* error(message, **kwargs) / info(message, **kwargs)
LogError(logs, message, session_id) ==
    LogStructured(logs, [level |-> "ERROR", event |-> message, audit |-> FALSE,
                         session_id |-> session_id, fields |-> <<>>])

LogInfo(logs, message) ==
    LogStructured(logs, [level |-> "INFO", event |-> message, audit |-> FALSE,
                         session_id |-> None, fields |-> <<>>])

\* get_recent_logs(limit)
GetRecentLogs(logs, limit) ==
    IF limit > 0
    THEN SubSeq(logs, (IF Len(logs) > limit THEN Len(logs) - limit + 1 ELSE 1), Len(logs))
    ELSE logs

(***************************************************************************)
(* Finite maps (Python dicts).                                             *)
(***************************************************************************)
EmptyMap == [k \in {} |-> None]

Put(f, k, v) == [x \in (DOMAIN f) \cup {k} |-> IF x = k THEN v ELSE f[x]]

Del(f, k) == [x \in (DOMAIN f) \ {k} |-> f[x]]

(***************************************************************************)
(* auth.py                                                                 *)
(***************************************************************************)
\* hashlib.sha256(f"{user}-{AUTH_TOKEN_SECRET}").hexdigest()[:32] with the
\* default AUTH_TOKEN_SECRET of config.py
Sha256Hex32(user) ==
    CASE user = "admin"  -> <<"d1405116107df3798451094ebb21052c">>
      [] user = "devops" -> <<"77c1b3d8c275f2d774a60ea912080c04">>
      [] user = "user"   -> <<"1da8c4916636af0ab976cb4728491094">>

\* _load_api_tokens: the dict, its keys in insertion order
ApiTokenUsers == <<"admin", "devops", "user">>

api_tokens == [u \in {"admin", "devops", "user"} |-> Sha256Hex32(u)]

\* _load_ssh_keys with no usable authorized_keys file: the demo key
DemoKey ==
    <<"ssh-rsa", " ", "AAAAB3NzaC1yc2EAAAADAQABAAABgQC...", " ", "demo@localhost">>

SshKeyUsers == <<"demo">>

ssh_keys == [u \in {"demo"} |-> DemoKey]

\* one test of the loop of _validate_ssh_key
SshKeyMatches(provided_key, stored_key) ==
    provided_key = stored_key \/ Contains(provided_key, stored_key)

\* the loop of _validate_ssh_key from the i-th entry on
RECURSIVE SshKeyLoop(_, _)
SshKeyLoop(provided_key, i) ==
    IF i > Len(SshKeyUsers) THEN None
    ELSE IF SshKeyMatches(provided_key, ssh_keys[SshKeyUsers[i]]) THEN SshKeyUsers[i]
    ELSE SshKeyLoop(provided_key, i + 1)

\* _validate_ssh_key
ValidateSshKey(provided_key) == SshKeyLoop(Strip(provided_key), 1)

\* secrets.compare_digest on two str: TypeError unless both are ASCII
CompareDigestRaises(a, b) == ~IsAscii(a) \/ ~IsAscii(b)

\* the loop of _validate_api_token from the i-th entry on; "TypeError" when
\* compare_digest raises
RECURSIVE ApiTokenLoop(_, _)
ApiTokenLoop(token, i) ==
    IF i > Len(ApiTokenUsers) THEN None
    ELSE IF CompareDigestRaises(token, api_tokens[ApiTokenUsers[i]]) THEN "TypeError"
    ELSE IF token = api_tokens[ApiTokenUsers[i]] THEN ApiTokenUsers[i]
    ELSE ApiTokenLoop(token, i + 1)

\* _validate_api_token naming the first stored entry whichever entry matched
ValidateApiTokenFirstEntry(token) ==
    IF ApiTokenLoop(token, 1) \in {None, "TypeError"} THEN ApiTokenLoop(token, 1)
    ELSE ApiTokenUsers[1]

\* _validate_api_token
ValidateApiToken(token) == ApiTokenLoop(token, 1)

\* the credential check at the head of authenticate
CheckCredentials(method, credentials) ==
    IF method = "ssh_key" THEN ValidateSshKey(credentials)
    ELSE IF method = "api_token" THEN ValidateApiToken(credentials)
    ELSE None

\* the session record authenticate stores: expires_at comes from the clock
\* read at t, created_at and last_activity from the later reads at t2
NewSession(username, method, t, t2) ==
    [username |-> username, auth_method |-> method, created_at |-> t2,
     expires_at |-> t + SessionTTL, last_activity |-> t2]

\* Expired with the comparison one hour late
ExpiredLate(session, t) == t > session.expires_at + 1

\* the expiry test of validate_session and get_active_sessions
Expired(session, t) == t > session.expires_at

\* validate_session renewing the lifetime of the session it validates
ValidateSessionSliding(sessions, logs, sid, t) ==
    IF sid \notin DOMAIN sessions
    THEN [valid |-> FALSE, sessions |-> sessions, logs |-> logs]
    ELSE IF Expired(sessions[sid], t)
    THEN [valid |-> FALSE, sessions |-> Del(sessions, sid),
          logs |-> Audit(logs, "session_expired", sid, <<>>)]
    ELSE [valid |-> TRUE,
          sessions |-> [sessions EXCEPT ![sid].last_activity = t,
                                        ![sid].expires_at = t + SessionTTL],
          logs |-> logs]

\* validate_session: the registry and log it leaves, and whether it returned
\* a session
ValidateSession(sessions, logs, sid, t) ==
    IF sid \notin DOMAIN sessions
    THEN [valid |-> FALSE, sessions |-> sessions, logs |-> logs]
    ELSE IF Expired(sessions[sid], t)
    THEN [valid |-> FALSE, sessions |-> Del(sessions, sid),
          logs |-> Audit(logs, "session_expired", sid, <<>>)]
    ELSE [valid |-> TRUE,
          sessions |-> [sessions EXCEPT ![sid].last_activity = t],
          logs |-> logs]

\* AuthManager.logout reporting success without deleting the session
AuthLogoutKeepsSession(sessions, logs, sid) ==
    IF sid \in DOMAIN sessions
    THEN [ok |-> TRUE, sessions |-> sessions,
          logs |-> Audit(logs, "logout", sid, <<sessions[sid].username>>)]
    ELSE [ok |-> FALSE, sessions |-> sessions, logs |-> logs]

\* AuthManager.logout
AuthLogout(sessions, logs, sid) ==
    IF sid \in DOMAIN sessions
    THEN [ok |-> TRUE, sessions |-> Del(sessions, sid),
          logs |-> Audit(logs, "logout", sid, <<sessions[sid].username>>)]
    ELSE [ok |-> FALSE, sessions |-> sessions, logs |-> logs]

\* get_active_sessions returning the registry without the sweep
GetActiveSessionsNoSweep(sessions, t) ==
    [s \in {x \in DOMAIN sessions : t = t} |-> sessions[s]]

\* get_active_sessions: drop the expired sessions, return the rest
GetActiveSessions(sessions, t) ==
    [s \in {x \in DOMAIN sessions : ~Expired(sessions[x], t)} |-> sessions[s]]

(***************************************************************************)
(* config.py                                                               *)
(***************************************************************************)
AVAILABLE_TOOLS ==
    {<<"git">>, <<"curl">>, <<"wget">>, <<"ssh">>, <<"scp">>, <<"rsync">>,
     <<"docker">>, <<"kubectl">>, <<"terraform">>, <<"ansible">>,
     <<"grep">>, <<"awk">>, <<"sed">>, <<"find">>, <<"cat">>, <<"ls">>, <<"pwd">>}

BLOCKED_COMMANDS ==
    {<<"rm">>, <<"rmdir">>, <<"delete">>, <<"format">>, <<"fdisk">>,
     <<"mkfs">>, <<"mount">>, <<"umount">>, <<"reboot">>, <<"shutdown">>,
     <<"systemctl">>, <<"service">>, <<"kill">>, <<"killall">>}

(***************************************************************************)
(* sandbox.py                                                              *)
(***************************************************************************)
\* the list dangerous_patterns of _is_command_safe, in its order (the chunk
\* "BACKTICK" stands for the backquote character)
dangerous_patterns ==
    << <<">">>, <<">", ">">>, <<"|">>, <<"&">>, <<";">>, <<"$", "(">>, <<"BACKTICK">> >>

\* the pattern loop of _is_command_safe from the i-th pattern on: the first
\* pattern found in the command, or <<>> when there is none
RECURSIVE FirstDangerousPattern(_, _)
FirstDangerousPattern(command, i) ==
    IF i > Len(dangerous_patterns) THEN <<>>
    ELSE IF Contains(dangerous_patterns[i], command) THEN dangerous_patterns[i]
    ELSE FirstDangerousPattern(command, i + 1)

EmptyCommandMsg == "Empty command"
BlockedMsg      == "Command '%s' is blocked for security reasons"
UnavailableMsg  == "Command '%s' is not available in sandbox"
DangerousMsg    == "Command contains potentially dangerous pattern: %s"
SafeMsg         == "Command is safe"

\* _is_command_safe with the dangerous-pattern scan moved ahead of the lists
IsCommandSafeScanFirst(command) ==
    LET cmd_parts == Split(Strip(command))
    IN  IF cmd_parts = <<>>
        THEN [safe |-> FALSE, text |-> EmptyCommandMsg, arg |-> <<>>]
        ELSE LET base_command == Lower(cmd_parts[1])
                 pattern == FirstDangerousPattern(command, 1)
             IN  IF pattern # <<>>
                 THEN [safe |-> FALSE, text |-> DangerousMsg, arg |-> pattern]
                 ELSE IF base_command \in BLOCKED_COMMANDS
                 THEN [safe |-> FALSE, text |-> BlockedMsg, arg |-> base_command]
                 ELSE IF base_command \notin AVAILABLE_TOOLS
                 THEN [safe |-> FALSE, text |-> UnavailableMsg, arg |-> base_command]
                 ELSE [safe |-> TRUE, text |-> SafeMsg, arg |-> <<>>]

\* _is_command_safe: (is_safe, message); the message is its format string and
\* the text put into it
IsCommandSafe(command) ==
    LET cmd_parts == Split(Strip(command))
    IN  IF cmd_parts = <<>>
        THEN [safe |-> FALSE, text |-> EmptyCommandMsg, arg |-> <<>>]
        ELSE LET base_command == Lower(cmd_parts[1])
                 pattern == FirstDangerousPattern(command, 1)
             IN  IF base_command \in BLOCKED_COMMANDS
                 THEN [safe |-> FALSE, text |-> BlockedMsg, arg |-> base_command]
                 ELSE IF base_command \notin AVAILABLE_TOOLS
                 THEN [safe |-> FALSE, text |-> UnavailableMsg, arg |-> base_command]
                 ELSE IF pattern # <<>>
                 THEN [safe |-> FALSE, text |-> DangerousMsg, arg |-> pattern]
                 ELSE [safe |-> TRUE, text |-> SafeMsg, arg |-> <<>>]

\* ' '.join(args)
RECURSIVE Join(_)
Join(args) ==
    IF args = <<>> THEN <<>>
    ELSE IF Len(args) = 1 THEN args[1]
    ELSE args[1] \o <<Space>> \o Join(Tail(args))

SimOut(text, arg) == [stdout |-> [text |-> text, arg |-> arg], exit_code |-> 0]

\* _simulate_devops_command: (stdout, "", exit_code)
SimulateDevopsCommand(command, args) ==
    LET cmd_lower == Lower(command)
        sub == IF args = <<>> THEN <<>> ELSE args[1]
    IN  IF cmd_lower = <<"git">>
        THEN IF args = <<>> THEN SimOut("git version 2.34.1", <<>>)
             ELSE IF sub = <<"status">>
             THEN SimOut("On branch main\nnothing to commit, working tree clean", <<>>)
             ELSE IF sub = <<"clone">>
             THEN SimOut("Cloning into '%s'...\nDone.",
                         IF Len(args) > 1 THEN args[2] ELSE <<"repository">>)
             ELSE IF sub = <<"pull">> THEN SimOut("Already up to date.", <<>>)
             ELSE SimOut("Simulated: git %s", Join(args))
        ELSE IF cmd_lower = <<"docker">>
        THEN IF args = <<>> THEN SimOut("Docker version 20.10.17", <<>>)
             ELSE IF sub = <<"ps">> THEN SimOut("CONTAINER ID   IMAGE ...", <<>>)
             ELSE IF sub = <<"images">> THEN SimOut("REPOSITORY    TAG ...", <<>>)
             ELSE SimOut("Simulated: docker %s", Join(args))
        ELSE IF cmd_lower = <<"kubectl">>
        THEN IF args = <<>>
             THEN SimOut("kubectl controls the Kubernetes cluster manager.", <<>>)
             ELSE IF sub = <<"get">>
             THEN SimOut("No resources found in default namespace.", <<>>)
             ELSE SimOut("Simulated: kubectl %s", Join(args))
        ELSE IF cmd_lower = <<"terraform">>
        THEN IF args = <<>> THEN SimOut("Terraform v1.0.0", <<>>)
             ELSE IF sub = <<"plan">>
             THEN SimOut("No changes. Infrastructure is up-to-date.", <<>>)
             ELSE IF sub = <<"apply">>
             THEN SimOut("Apply complete! Resources: 0 added, 0 changed, 0 destroyed.", <<>>)
             ELSE SimOut("Simulated: terraform %s", Join(args))
        ELSE IF cmd_lower = <<"curl">>
        THEN SimOut("Simulated HTTP GET to %s\nStatus: 200 OK\nContent: Sample response",
                    IF args = <<>> THEN <<"http://example.com">> ELSE sub)
        ELSE SimOut("Simulated: %s %s", command \o <<Space>> \o Join(args))

\* the CommandResponse of execute_command
CommandResponse(command_id, status, stdout, stderr, exit_code, execution_time) ==
    [command_id |-> command_id, status |-> status, stdout |-> stdout,
     stderr |-> stderr, exit_code |-> exit_code, execution_time |-> execution_time]

NoOutput == [text |-> "", arg |-> <<>>]

\* the append of execute_command trimming to the first 100 results, so that
\* a full history drops the newest result
AppendHistoryKeepOldest(history, response) ==
    LET appended == Append(history, response)
    IN  IF Len(appended) > HistoryCap
        THEN SubSeq(appended, 1, HistoryCap)
        ELSE appended

\* "Keep only last 100 commands": append, then trim to the last 100
AppendHistory(history, response) ==
    LET appended == Append(history, response)
    IN  IF Len(appended) > HistoryCap
        THEN SubSeq(appended, Len(appended) - HistoryCap + 1, Len(appended))
        ELSE appended

\* the rejection branch of execute_command with the audit call left out
PolicyRejectionNoAudit(history, logs, session_id, request, command_id, check, elapsed) ==
    [response |-> CommandResponse(command_id, "failed", NoOutput,
                                  [text |-> check.text, arg |-> check.arg], 1, elapsed),
     history |-> history, logs |-> logs, simulated |-> FALSE]

\* the rejection branch of execute_command entered after the started event
\* was audited
PolicyRejectionAfterStart(history, logs, session_id, request, command_id, check, elapsed) ==
    [response |-> CommandResponse(command_id, "failed", NoOutput,
                                  [text |-> check.text, arg |-> check.arg], 1, elapsed),
     history |-> history,
     logs |-> Audit(Audit(logs, "command_execution_started", session_id,
                          <<command_id, request.command, request.args>>),
                    "unsafe_command_blocked", session_id,
                    <<request.command, check.text, check.arg>>),
     simulated |-> FALSE]

\* the rejection branch of execute_command (`if not is_safe`): audit the
\* rejection and return a failed response carrying the reason
PolicyRejection(history, logs, session_id, request, command_id, check, elapsed) ==
    [response |-> CommandResponse(command_id, "failed", NoOutput,
                                  [text |-> check.text, arg |-> check.arg], 1, elapsed),
     history |-> history,
     logs |-> Audit(logs, "unsafe_command_blocked", session_id,
                    <<request.command, check.text, check.arg>>),
     simulated |-> FALSE]

\* the classification with the two statuses exchanged
StatusOfExchanged(exit_code) == IF exit_code = 0 THEN "failed" ELSE "completed"

\* the classification of an executed command by its exit code
StatusOf(exit_code) == IF exit_code = 0 THEN "completed" ELSE "failed"

\* execute_command checking the policy before it looks for the sandbox
ExecuteCommandPolicyFirst(sandboxes, history, logs, session_id, request, t, elapsed) ==
    LET command_id == <<"cmd", session_id, t>>
        check == IsCommandSafe(request.command)
        sim == SimulateDevopsCommand(request.command, request.args)
        status == StatusOf(sim.exit_code)
        response == CommandResponse(command_id, status, sim.stdout, NoOutput,
                                    sim.exit_code, elapsed)
    IN  IF ~check.safe
        THEN PolicyRejection(history, logs, session_id, request, command_id, check,
                             elapsed)
        ELSE IF session_id \notin DOMAIN sandboxes
        THEN [response |-> CommandResponse(command_id, "failed", NoOutput,
                               [text |-> "No sandbox found for session", arg |-> <<>>], 1, 0),
              history |-> history, logs |-> logs, simulated |-> FALSE]
        ELSE [response |-> response,
              history |-> IF session_id \in DOMAIN history
                          THEN [history EXCEPT ![session_id] = AppendHistory(@, response)]
                          ELSE history,
              logs |-> Audit(Audit(logs, "command_execution_started", session_id,
                                   <<command_id, request.command, request.args>>),
                             "command_execution_completed", session_id,
                             <<command_id, status, sim.exit_code, elapsed>>),
              simulated |-> TRUE]

\* execute_command: the response, the history map and log it leaves, and
\* whether _simulate_devops_command was called; elapsed is what
\* time.time() - start_time measures, in seconds
ExecuteCommand(sandboxes, history, logs, session_id, request, t, elapsed) ==
    LET command_id == <<"cmd", session_id, t>>
        check == IsCommandSafe(request.command)
        sim == SimulateDevopsCommand(request.command, request.args)
        status == StatusOf(sim.exit_code)
        response == CommandResponse(command_id, status, sim.stdout, NoOutput,
                                    sim.exit_code, elapsed)
    IN  IF session_id \notin DOMAIN sandboxes
        THEN [response |-> CommandResponse(command_id, "failed", NoOutput,
                               [text |-> "No sandbox found for session", arg |-> <<>>], 1, 0),
              history |-> history, logs |-> logs, simulated |-> FALSE]
        ELSE IF ~check.safe
        THEN PolicyRejection(history, logs, session_id, request, command_id, check,
                             elapsed)
        ELSE [response |-> response,
              history |-> IF session_id \in DOMAIN history
                          THEN [history EXCEPT ![session_id] = AppendHistory(@, response)]
                          ELSE history,
              logs |-> Audit(Audit(logs, "command_execution_started", session_id,
                                   <<command_id, request.command, request.args>>),
                             "command_execution_completed", session_id,
                             <<command_id, status, sim.exit_code, elapsed>>),
              simulated |-> TRUE]

\* get_command_history returning the oldest entries instead of the newest
GetCommandHistoryOldest(history, session_id, limit) ==
    IF session_id \notin DOMAIN history THEN <<>>
    ELSE LET h == history[session_id]
         IN  IF limit > 0
             THEN SubSeq(h, 1, IF Len(h) > limit THEN limit ELSE Len(h))
             ELSE h

\* get_command_history
GetCommandHistory(history, session_id, limit) ==
    IF session_id \notin DOMAIN history THEN <<>>
    ELSE LET h == history[session_id]
         IN  IF limit > 0
             THEN SubSeq(h, (IF Len(h) > limit THEN Len(h) - limit + 1 ELSE 1), Len(h))
             ELSE h

\* the SandboxInfo create_sandbox registers
SandboxInfo(session_id, username, t) ==
    [session_id |-> session_id, user |-> username, created_at |-> t]

\* cleanup_sandbox forgetting to delete the command history
CleanupSandboxKeepsHistory(sandboxes, history, dd, logs, session_id, rmtree_ok) ==
    IF session_id \notin DOMAIN sandboxes
    THEN [ok |-> FALSE, sandboxes |-> sandboxes, history |-> history, dirs |-> dd,
          logs |-> logs]
    ELSE IF session_id \in dd /\ ~rmtree_ok
    THEN [ok |-> FALSE, sandboxes |-> sandboxes, history |-> history, dirs |-> dd,
          logs |-> LogError(logs, "sandbox_cleanup_failed", session_id)]
    ELSE [ok |-> TRUE, sandboxes |-> Del(sandboxes, session_id),
          history |-> history,
          dirs |-> dd \ {session_id},
          logs |-> Audit(logs, "sandbox_cleaned_up", session_id, <<>>)]

\* cleanup_sandbox removing SANDBOX_ROOT instead of the session's directory
CleanupSandboxRoot(sandboxes, history, dd, logs, session_id, rmtree_ok) ==
    IF session_id \notin DOMAIN sandboxes
    THEN [ok |-> FALSE, sandboxes |-> sandboxes, history |-> history, dirs |-> dd,
          logs |-> logs]
    ELSE IF session_id \in dd /\ ~rmtree_ok
    THEN [ok |-> FALSE, sandboxes |-> sandboxes, history |-> history, dirs |-> dd,
          logs |-> LogError(logs, "sandbox_cleanup_failed", session_id)]
    ELSE [ok |-> TRUE, sandboxes |-> Del(sandboxes, session_id),
          history |-> IF session_id \in DOMAIN history THEN Del(history, session_id)
                      ELSE history,
          dirs |-> {},
          logs |-> Audit(logs, "sandbox_cleaned_up", session_id, <<>>)]

\* cleanup_sandbox; rmtree_ok says whether shutil.rmtree succeeds when called
CleanupSandbox(sandboxes, history, dd, logs, session_id, rmtree_ok) ==
    IF session_id \notin DOMAIN sandboxes
    THEN [ok |-> FALSE, sandboxes |-> sandboxes, history |-> history, dirs |-> dd,
          logs |-> logs]
    ELSE IF session_id \in dd /\ ~rmtree_ok
    THEN [ok |-> FALSE, sandboxes |-> sandboxes, history |-> history, dirs |-> dd,
          logs |-> LogError(logs, "sandbox_cleanup_failed", session_id)]
    ELSE [ok |-> TRUE, sandboxes |-> Del(sandboxes, session_id),
          history |-> IF session_id \in DOMAIN history THEN Del(history, session_id)
                      ELSE history,
          dirs |-> dd \ {session_id},
          logs |-> Audit(logs, "sandbox_cleaned_up", session_id, <<>>)]

\* create_sandbox; mk says how far the mkdir calls get: "ok", "fail_root"
\* (SANDBOX_ROOT/<id> cannot be created) or "fail_sub" (a subdirectory cannot)
CreateSandbox(sandboxes, history, dd, logs, session_id, username, t, mk) ==
    IF mk = "fail_root"
    THEN [raised |-> TRUE, sandboxes |-> sandboxes, history |-> history,
          dirs |-> dd, logs |-> logs]
    ELSE IF mk = "fail_sub"
    THEN [raised |-> TRUE, sandboxes |-> sandboxes, history |-> history,
          dirs |-> dd \cup {session_id}, logs |-> logs]
    ELSE [raised |-> FALSE,
          sandboxes |-> Put(sandboxes, session_id, SandboxInfo(session_id, username, t)),
          history |-> Put(history, session_id, <<>>),
          dirs |-> dd \cup {session_id},
          logs |-> Audit(logs, "sandbox_created", session_id, <<>>)]

(***************************************************************************)
(* server.py: one action per request handler.                              *)
(***************************************************************************)
AuthMethods == {"ssh_key", "api_token"}

MkdirOutcomes == {"ok", "fail_root", "fail_sub"}

\* room left in the audit buffer of the model
LogRoom == Len(json_logs) < MaxLog

Response(op, req, code, body) == [op |-> op, req |-> req, code |-> code, body |-> body]

NoResponse == Response("none", <<>>, 0, <<>>)

\* get_current_session looking the id up in the registry without
\* validate_session
GetCurrentSessionLax(sessions, logs, session_id, t) ==
    [valid |-> session_id \in DOMAIN sessions, sessions |-> sessions, logs |-> logs]

\* get_current_session: validate_session, 401 unless it returned a session
GetCurrentSession(sessions, logs, session_id, t) ==
    ValidateSession(sessions, logs, session_id, t)

\* the HTTPException(401) of get_current_session
Unauthenticated(op, req, v) ==
    /\ active_sessions' = v.sessions
    /\ json_logs' = v.logs
    /\ resp' = Response(op, req, 401, "Invalid or expired session")
    /\ UNCHANGED <<now, running, next_sid, active_sandboxes, command_history, dirs>>

\* POST /auth/login; lag is how far the clock advances inside authenticate
\* between the read for expires_at and the later reads
LoginRequest(method, credentials, username, mk, lag) ==
    LET req == [method |-> method, credentials |-> credentials, username |-> username]
        who == CheckCredentials(method, credentials)
        sid == next_sid
        expires_at == now + SessionTTL
        t2 == now + lag
        stored == Put(active_sessions, sid, NewSession(who, method, now, t2))
        logged == Audit(json_logs, "authentication_success", sid, <<method, who>>)
        v == ValidateSession(stored, logged, sid, t2)
        c == CreateSandbox(active_sandboxes, command_history, dirs, v.logs, sid,
                           who, t2, mk)
    IN  /\ running
        /\ UNCHANGED inflight
        /\ IF who = "TypeError"
           THEN /\ json_logs' = LogError(json_logs, "Authentication error", None)
                /\ resp' = Response("login", req, 500, "Authentication failed")
                /\ UNCHANGED <<now, running, next_sid, active_sessions,
                               active_sandboxes, command_history, dirs>>
           ELSE IF who = None
           THEN /\ json_logs' = Audit(json_logs, "authentication_failed", "none",
                                      <<method, username>>)
                /\ resp' = Response("login", req, 200,
                                    [success |-> FALSE, session_id |-> None,
                                     message |-> "Invalid credentials",
                                     user |-> None, expires_at |-> None])
                /\ UNCHANGED <<now, running, next_sid, active_sessions,
                               active_sandboxes, command_history, dirs>>
           ELSE /\ sid <= MaxSessions
                /\ t2 <= MaxClock
                /\ next_sid' = sid + 1
                /\ active_sessions' = v.sessions
                /\ now' = t2
                /\ UNCHANGED running
                /\ IF v.valid
                   THEN /\ active_sandboxes' = c.sandboxes
                        /\ command_history' = c.history
                        /\ dirs' = c.dirs
                        /\ IF c.raised
                           THEN /\ json_logs' = LogError(c.logs, "Authentication error", None)
                                /\ resp' = Response("login", req, 500,
                                                    "Authentication failed")
                           ELSE /\ json_logs' = c.logs
                                /\ resp' = Response("login", req, 200,
                                       [success |-> TRUE, session_id |-> sid,
                                        message |-> "Authenticated as %s",
                                        user |-> who, expires_at |-> expires_at])
                   ELSE /\ json_logs' = v.logs
                        /\ resp' = Response("login", req, 200,
                                       [success |-> TRUE, session_id |-> sid,
                                        message |-> "Authenticated as %s",
                                        user |-> who, expires_at |-> expires_at])
                        /\ UNCHANGED <<active_sandboxes, command_history, dirs>>

\* POST /auth/login while the audit buffer of the model has room
Login(method, credentials, username, mk, lag) ==
    LogRoom /\ LoginRequest(method, credentials, username, mk, lag)

\* POST /auth/logout
LogoutRequest(session_id, rmtree_ok) ==
    LET a == AuthLogout(active_sessions, json_logs, session_id)
        c == CleanupSandbox(active_sandboxes, command_history, dirs, a.logs,
                            session_id, rmtree_ok)
    IN  /\ running
        /\ UNCHANGED inflight
        /\ active_sessions' = a.sessions
        /\ IF a.ok
           THEN /\ active_sandboxes' = c.sandboxes
                /\ command_history' = c.history
                /\ dirs' = c.dirs
                /\ json_logs' = c.logs
           ELSE /\ json_logs' = a.logs
                /\ UNCHANGED <<active_sandboxes, command_history, dirs>>
        /\ resp' = Response("logout", [session_id |-> session_id], 200,
                            [success |-> a.ok, message |-> "Logged out successfully"])
        /\ UNCHANGED <<now, running, next_sid>>

\* POST /auth/logout while the audit buffer of the model has room
Logout(session_id, rmtree_ok) == LogRoom /\ LogoutRequest(session_id, rmtree_ok)

\* GET /session/info
GetSessionInfoRequest(session_id) ==
    LET req == [session_id |-> session_id]
        v == GetCurrentSession(active_sessions, json_logs, session_id, now)
        session == v.sessions[session_id]
    IN  /\ running
        /\ UNCHANGED inflight
        /\ IF ~v.valid THEN Unauthenticated("session_info", req, v)
           ELSE /\ active_sessions' = v.sessions
                /\ json_logs' = v.logs
                /\ resp' = IF session_id \notin DOMAIN active_sandboxes
                           THEN Response("session_info", req, 404, "Sandbox not found")
                           ELSE Response("session_info", req, 200,
                                    [session_id |-> session_id,
                                     username |-> session.username,
                                     auth_method |-> session.auth_method,
                                     created_at |-> session.created_at,
                                     last_activity |-> session.last_activity,
                                     commands_executed |->
                                         Len(GetCommandHistory(command_history, session_id,
                                                               DefaultHistoryLimit)),
                                     sandbox_info |-> active_sandboxes[session_id]])
                /\ UNCHANGED <<now, running, next_sid, active_sandboxes,
                               command_history, dirs>>

\* GET /session/info while the audit buffer of the model has room
GetSessionInfo(session_id) == LogRoom /\ GetSessionInfoRequest(session_id)

\* GET /sandbox/info
GetSandboxInfo(session_id) ==
    LET req == [session_id |-> session_id]
        v == GetCurrentSession(active_sessions, json_logs, session_id, now)
    IN  /\ running
        /\ UNCHANGED inflight
        /\ LogRoom
        /\ IF ~v.valid THEN Unauthenticated("sandbox_info", req, v)
           ELSE /\ active_sessions' = v.sessions
                /\ json_logs' = v.logs
                /\ resp' = IF session_id \notin DOMAIN active_sandboxes
                           THEN Response("sandbox_info", req, 404, "Sandbox not found")
                           ELSE Response("sandbox_info", req, 200,
                                         active_sandboxes[session_id])
                /\ UNCHANGED <<now, running, next_sid, active_sandboxes,
                               command_history, dirs>>

\* the handler execute_command running the command for the session id of
\* the request body, without comparing it with the validated one
ExecuteEndpointBodySession(req, logs, elapsed) ==
    LET r == ExecuteCommand(active_sandboxes, command_history, logs,
                            req.command_request.session_id, req.command_request,
                            now, elapsed)
    IN  /\ UNCHANGED <<now, running, next_sid, active_sandboxes, dirs>>
        /\ json_logs' = r.logs
        /\ command_history' = r.history
        /\ resp' = Response("execute", req, 200,
                            [response |-> r.response, simulated |-> r.simulated])

\* the handler execute_command of POST /commands/execute, called with the
\* request once its dependency is resolved; logs is the audit buffer then
ExecuteEndpoint(req, logs, elapsed) ==
    LET r == ExecuteCommand(active_sandboxes, command_history, logs, req.session_id,
                            req.command_request, now, elapsed)
    IN  /\ UNCHANGED <<now, running, next_sid, active_sandboxes, dirs>>
        /\ IF req.command_request.session_id # req.session_id
           THEN /\ json_logs' = logs
                /\ resp' = Response("execute", req, 400, "Session ID mismatch")
                /\ UNCHANGED command_history
           ELSE /\ json_logs' = r.logs
                /\ command_history' = r.history
                /\ resp' = Response("execute", req, 200,
                                    [response |-> r.response,
                                     simulated |-> r.simulated])

\* POST /commands/execute, the dependency and the handler without another
\* request in between
ExecuteRequest(session_id, command_request, elapsed) ==
    LET req == [session_id |-> session_id, command_request |-> command_request]
        v == GetCurrentSession(active_sessions, json_logs, session_id, now)
    IN  /\ running
        /\ UNCHANGED inflight
        /\ IF ~v.valid THEN Unauthenticated("execute", req, v)
           ELSE /\ active_sessions' = v.sessions
                /\ ExecuteEndpoint(req, v.logs, elapsed)

\* POST /commands/execute, first half: the dependency get_current_session
\* runs and the request waits for its handler to be called
ExecuteAdmit(session_id, command_request) ==
    LET req == [session_id |-> session_id, command_request |-> command_request]
        v == GetCurrentSession(active_sessions, json_logs, session_id, now)
    IN  /\ running
        /\ IF ~v.valid
           THEN Unauthenticated("execute", req, v) /\ UNCHANGED inflight
           ELSE /\ active_sessions' = v.sessions
                /\ json_logs' = v.logs
                /\ inflight' = Append(inflight, req)
                /\ resp' = Response("execute_admitted", req, 0, <<>>)
                /\ UNCHANGED <<now, running, next_sid, active_sandboxes,
                               command_history, dirs>>

\* POST /commands/execute, second half: the handler of the i-th waiting
\* request is called
ExecuteBody(i, elapsed) ==
    /\ running
    /\ i \in 1..Len(inflight)
    /\ inflight' = SubSeq(inflight, 1, i - 1) \o SubSeq(inflight, i + 1, Len(inflight))
    /\ UNCHANGED active_sessions
    /\ ExecuteEndpoint(inflight[i], json_logs, elapsed)

\* POST /commands/execute while the audit buffer of the model has room
Execute(session_id, command_request, elapsed) ==
    LogRoom /\ ExecuteRequest(session_id, command_request, elapsed)

\* GET /commands/history
GetHistoryRequest(session_id, limit) ==
    LET req == [session_id |-> session_id, limit |-> limit]
        v == GetCurrentSession(active_sessions, json_logs, session_id, now)
    IN  /\ running
        /\ UNCHANGED inflight
        /\ IF ~v.valid THEN Unauthenticated("history", req, v)
           ELSE /\ active_sessions' = v.sessions
                /\ json_logs' = v.logs
                /\ resp' = Response("history", req, 200,
                                    GetCommandHistory(command_history, session_id, limit))
                /\ UNCHANGED <<now, running, next_sid, active_sandboxes,
                               command_history, dirs>>

\* GET /commands/history while the audit buffer of the model has room
GetHistory(session_id, limit) ==
    LogRoom /\ GetHistoryRequest(session_id, limit)

\* the admin check letting every username through
IsAdminAnyone(session) == session.username = session.username

\* the admin check of the two admin handlers
IsAdmin(session) == session.username \in {"admin", "root"}

\* GET /admin/sessions
AdminSessionsRequest(session_id) ==
    LET req == [session_id |-> session_id]
        v == GetCurrentSession(active_sessions, json_logs, session_id, now)
        swept == GetActiveSessions(v.sessions, now)
    IN  /\ running
        /\ UNCHANGED inflight
        /\ IF ~v.valid THEN Unauthenticated("admin_sessions", req, v)
           ELSE /\ json_logs' = v.logs
                /\ IF ~IsAdmin(v.sessions[session_id])
                   THEN /\ active_sessions' = v.sessions
                        /\ resp' = Response("admin_sessions", req, 403,
                                            "Admin access required")
                   ELSE /\ active_sessions' = swept
                        /\ resp' = Response("admin_sessions", req, 200, swept)
                /\ UNCHANGED <<now, running, next_sid, active_sandboxes,
                               command_history, dirs>>

\* GET /admin/sessions while the audit buffer of the model has room
AdminSessions(session_id) ==
    LogRoom /\ AdminSessionsRequest(session_id)

\* GET /admin/logs
AdminLogsRequest(session_id, limit) ==
    LET req == [session_id |-> session_id, limit |-> limit]
        v == GetCurrentSession(active_sessions, json_logs, session_id, now)
    IN  /\ running
        /\ UNCHANGED inflight
        /\ IF ~v.valid THEN Unauthenticated("admin_logs", req, v)
           ELSE /\ active_sessions' = v.sessions
                /\ json_logs' = v.logs
                /\ resp' = IF ~IsAdmin(v.sessions[session_id])
                           THEN Response("admin_logs", req, 403, "Admin access required")
                           ELSE Response("admin_logs", req, 200,
                                         GetRecentLogs(v.logs, limit))
                /\ UNCHANGED <<now, running, next_sid, active_sandboxes,
                               command_history, dirs>>

\* GET /admin/logs while the audit buffer of the model has room
AdminLogs(session_id, limit) ==
    LogRoom /\ AdminLogsRequest(session_id, limit)

\* the loop of shutdown_event over list(active_sandboxes.keys()), from the
\* i-th key on; failing holds the ids whose rmtree raises
RECURSIVE ShutdownLoop(_, _, _, _)
ShutdownLoop(keys, i, failing, st) ==
    IF i > Len(keys) THEN st
    ELSE ShutdownLoop(keys, i + 1, failing,
                      CleanupSandbox(st.sandboxes, st.history, st.dirs, st.logs,
                                     keys[i], keys[i] \notin failing))

\* the keys of a dict over session ids, in insertion order (ids are issued
\* in increasing order)
RECURSIVE KeysFrom(_, _)
KeysFrom(f, k) ==
    IF k > MaxSessions THEN <<>>
    ELSE (IF k \in DOMAIN f THEN <<k>> ELSE <<>>) \o KeysFrom(f, k + 1)

\* the shutdown handler
Shutdown(failing) ==
    LET st == ShutdownLoop(KeysFrom(active_sandboxes, 1), 1, failing,
                  [ok |-> TRUE, sandboxes |-> active_sandboxes,
                   history |-> command_history, dirs |-> dirs,
                   logs |-> LogInfo(json_logs, "DevOps Agent server shutting down")])
    IN  /\ running
        /\ UNCHANGED inflight
        /\ running' = FALSE
        /\ active_sandboxes' = st.sandboxes
        /\ command_history' = st.history
        /\ dirs' = st.dirs
        /\ json_logs' = st.logs
        /\ resp' = Response("shutdown", <<>>, 0, <<>>)
        /\ UNCHANGED <<now, next_sid, active_sessions>>

\* the clock advances
TickSteps == {SessionTTL, SessionTTL + 1}

Tick(d) ==
    /\ running
    /\ UNCHANGED inflight
    /\ now + d <= MaxClock
    /\ now' = now + d
    /\ resp' = NoResponse
    /\ UNCHANGED <<running, next_sid, active_sessions, active_sandboxes,
                   command_history, dirs, json_logs>>

(***************************************************************************)
(* The requests the model sends.                                           *)
(***************************************************************************)
PaddedDemoKey == <<Space>> \o DemoKey \o <<Space>>

LoginCredentials ==
    {api_tokens["devops"], api_tokens["admin"], <<"devops">>, DemoKey,
     PaddedDemoKey, <<"ssh-rsa">>, <<>>, <<"\\u00e9">>}

LoginUsernames == {None, "admin"}

Cmd(command, args) == [command |-> command, args |-> args]

GitStatus == Cmd(<<"git">>, << <<"status">> >>)
RmRf      == Cmd(<<"rm">>, << <<"-rf">>, <<"/">> >>)

Commands ==
    {GitStatus, RmRf,
     Cmd(<<"RM", " ", ";", " ", "ls">>, <<>>),
     Cmd(<<"ls", " ", ">", " ", "out">>, <<>>),
     Cmd(<<"cat">>, << <<"notes">>, <<"|">>, <<"sh">> >>),
     Cmd(<<"python">>, <<>>),
     Cmd(<<" ">>, <<>>)}

CommandRequests(cmds) ==
    {[session_id |-> s, command |-> c.command, args |-> c.args] :
        s \in SessionIds, c \in cmds}

Limits == {0, 1, DefaultHistoryLimit}

Init ==
    /\ now = 0
    /\ running = TRUE
    /\ next_sid = 1
    /\ active_sessions = EmptyMap
    /\ active_sandboxes = EmptyMap
    /\ command_history = EmptyMap
    /\ dirs = {}
    /\ json_logs = LogInfo(<<>>, "DevOps Agent server starting up")
    /\ inflight = <<>>
    /\ resp = NoResponse

\* the next-state relation for requests drawn from the given credentials,
\* client usernames and command lines, in an environment where mkdir ends as
\* one of mks, rmtree succeeds as one of rms, a command takes one of els
\* seconds and the clock advances by one of lags inside authenticate
NextWith(creds, users, cmds, mks, rms, els, lags) ==
    \/ \E m \in AuthMethods, c \in creds, u \in users, mk \in mks, lag \in lags :
          Login(m, c, u, mk, lag)
    \/ \E s \in SessionIds, ok \in rms : Logout(s, ok)
    \/ \E s \in SessionIds : GetSessionInfo(s)
    \/ \E s \in SessionIds : GetSandboxInfo(s)
    \/ \E s \in SessionIds, r \in CommandRequests(cmds), e \in els : Execute(s, r, e)
    \/ \E s \in SessionIds, l \in Limits : GetHistory(s, l)
    \/ \E s \in SessionIds : AdminSessions(s)
    \/ \E s \in SessionIds, l \in Limits : AdminLogs(s, l)
    \/ \E f \in (IF FALSE \in rms THEN SUBSET (DOMAIN active_sandboxes) ELSE {{}}) :
          Shutdown(f)
    \/ \E d \in TickSteps : Tick(d)

BaseCredentials == {api_tokens["devops"], api_tokens["admin"], <<"ssh-rsa">>}

BaseCommands == {GitStatus, RmRf, Cmd(<<"cat">>, << <<"notes">>, <<"|">>, <<"sh">> >>)}

\* the service with I/O faults (mkdir or rmtree may raise)
Next == NextWith(BaseCredentials, {None}, BaseCommands, MkdirOutcomes, BOOLEAN, {0}, {0})

Spec == Init /\ [][Next]_vars

\* the service on a filesystem that never fails
NextNoFaults ==
    NextWith(BaseCredentials, {None}, BaseCommands, {"ok"}, {TRUE}, {0}, {0})

SpecNoFaults == Init /\ [][NextNoFaults]_vars

\* every credential of the model, with and without a client username
NextAuth ==
    NextWith(LoginCredentials, LoginUsernames, {GitStatus}, {"ok"}, {TRUE}, {0}, {0})

SpecAuth == Init /\ [][NextAuth]_vars

\* the login desk alone: every credential of the model with and without a
\* client username, the owner read back from the session info, and logouts
NextLogin ==
    \/ \E m \in AuthMethods, c \in LoginCredentials, u \in LoginUsernames :
          Login(m, c, u, "ok", 0)
    \/ \E s \in SessionIds : GetSessionInfo(s)
    \/ \E s \in SessionIds : Logout(s, TRUE)

SpecLogin == Init /\ [][NextLogin]_vars

\* every command line of the model; mkdir never fails, rmtree may
NextPolicy ==
    NextWith({api_tokens["devops"]}, {None}, Commands, {"ok"}, BOOLEAN, {0}, {0})

SpecPolicy == Init /\ [][NextPolicy]_vars

\* what a command takes, in seconds: nothing measurable, the configured
\* limit, and more than the limit
Durations == {0, MAX_EXECUTION_TIME, MAX_EXECUTION_TIME + 1}

\* commands of every duration on a filesystem that never fails
NextTimeout ==
    NextWith({api_tokens["devops"]}, {None}, {GitStatus, RmRf}, {"ok"}, {TRUE},
             Durations, {0})

SpecTimeout == Init /\ [][NextTimeout]_vars

\* how far the clock advances between two reads inside authenticate
ClockLags == {0, 1}

\* logins during which the clock may advance
NextClock ==
    NextWith({api_tokens["devops"]}, {None}, {GitStatus}, {"ok"}, {TRUE}, {0},
             ClockLags)

SpecClock == Init /\ [][NextClock]_vars

(***************************************************************************)
(* A long-running session: the history of one session near its capacity.   *)
(***************************************************************************)
Ls == Cmd(<<"ls">>, <<>>)

\* the command lines of the long-running session: two the policy lets
\* through and one it rejects
HistoryCommands == <<GitStatus, Ls, RmRf>>

\* the first results of the long run are all of git status; from this length
\* on every command line is sent
HistoryStart == HistoryCap - 1

\* the log of the longest run the model follows: startup, login, sandbox
\* creation, and two events for each accepted command
HistoryLogBound == 3 + 2 * (HistoryCap + MaxAppend)

\* the limit query parameter: negative, zero, one, the default and one more
\* than the history can hold
HistoryLimits == {-1, 0, 1, DefaultHistoryLimit, HistoryCap + 1}

\* session 1 submits one command after the other and reads its history and
\* its session info
NextHistory ==
    \/ Login("api_token", api_tokens["devops"], None, "ok", 0)
    \/ \E l \in HistoryLimits : GetHistoryRequest(1, l)
    \/ GetSessionInfoRequest(1)
    \/ \E i \in 1..Len(HistoryCommands) :
          /\ 1 \in DOMAIN command_history
          /\ Len(json_logs) < HistoryLogBound
          /\ i = 1 \/ Len(command_history[1]) >= HistoryStart
          /\ ExecuteRequest(1, [session_id |-> 1,
                                command |-> HistoryCommands[i].command,
                                args |-> HistoryCommands[i].args], 0)

SpecHistory == Init /\ [][NextHistory]_vars

(***************************************************************************)
(* Two sessions side by side: each logs in, submits commands, reads its    *)
(* history and its session info and logs out while time passes.            *)
(***************************************************************************)
PairCommands == <<GitStatus, RmRf>>

\* the results retained in all the histories together
Retained ==
    UNION {{<<s, i>> : i \in 1..Len(command_history[s])} : s \in DOMAIN command_history}

\* the ids of the first and of the second session the service creates
SessionA == 1

SessionB == 2

\* room for the audit records of a few commands after two logins
PairLogBound == MaxLog + MaxAppend

NextPair ==
    \/ /\ next_sid <= SessionB
       /\ LoginRequest("api_token", api_tokens["devops"], None, "ok", 0)
    \/ \E s \in {SessionA, SessionB} : LogoutRequest(s, TRUE)
    \/ \E s \in {SessionA, SessionB} : GetSessionInfoRequest(s)
    \/ \E s \in {SessionA, SessionB} : GetHistoryRequest(s, DefaultHistoryLimit)
    \/ \E s \in {SessionA, SessionB}, b \in {SessionA, SessionB},
          i \in 1..Len(PairCommands) :
          /\ Cardinality(Retained) < MaxAppend
          /\ Len(json_logs) < PairLogBound
          /\ ExecuteRequest(s, [session_id |-> b,
                                command |-> PairCommands[i].command,
                                args |-> PairCommands[i].args], 0)
    \/ \E d \in TickSteps : Tick(d)

SpecPair == Init /\ [][NextPair]_vars

(***************************************************************************)
(* Overlapping requests of one session.  The handlers are coroutines       *)
(* without an await, so each runs to its end on the event loop; a request  *)
(* with the dependency get_current_session is validated first and its      *)
(* handler is called later, and other requests may run in between.         *)
(***************************************************************************)
\* the session fills its history with single requests and then sends
\* requests that overlap with each other and with its logout, on a
\* filesystem where rmtree succeeds as one of rms
NextOverlapWith(rms) ==
    \/ /\ next_sid <= SessionA
       /\ LoginRequest("api_token", api_tokens["devops"], None, "ok", 0)
    \/ /\ SessionA \in DOMAIN command_history
       /\ Len(command_history[SessionA]) < HistoryStart
       /\ inflight = <<>>
       /\ ExecuteRequest(SessionA, [session_id |-> SessionA,
                                    command |-> GitStatus.command,
                                    args |-> GitStatus.args], 0)
    \/ \E i \in 1..Len(PairCommands) :
          /\ Len(inflight) < MaxAppend
          /\ Len(json_logs) < HistoryLogBound
          /\ SessionA \in DOMAIN command_history =>
                Len(command_history[SessionA]) >= HistoryStart
          /\ ExecuteAdmit(SessionA, [session_id |-> SessionA,
                                     command |-> PairCommands[i].command,
                                     args |-> PairCommands[i].args])
    \/ \E i \in 1..Len(inflight) : ExecuteBody(i, 0)
    \/ \E ok \in rms : LogoutRequest(SessionA, ok)

NextOverlap == NextOverlapWith(BOOLEAN)

SpecOverlap == Init /\ [][NextOverlap]_vars

\* overlapping requests on a filesystem that never fails
NextOverlapNoFaults == NextOverlapWith({TRUE})

SpecOverlapNoFaults == Init /\ [][NextOverlapNoFaults]_vars

(***************************************************************************)
(* Sessions of different ages: logins, logouts, the passage of time and    *)
(* the administrator listing the sessions.                                 *)
(***************************************************************************)
NextSweep ==
    \/ \E c \in {api_tokens["devops"], api_tokens["admin"]} :
          Login("api_token", c, None, "ok", 0)
    \/ \E s \in SessionIds : Logout(s, TRUE)
    \/ \E s \in SessionIds : AdminSessionsRequest(s)
    \/ \E d \in TickSteps : Tick(d)

SpecSweep == Init /\ [][NextSweep]_vars

(***************************************************************************)
(* A long-running service: the audit buffer near its capacity.             *)
(***************************************************************************)
StartupMsg == "DevOps Agent server starting up"

\* how many of the first records of the service the buffer has dropped
\* (3 stands for three or more)
Evicted ==
    IF json_logs[1].event = StartupMsg THEN 0
    ELSE IF json_logs[1].event = "authentication_success" THEN 1
    ELSE IF json_logs[1].event = "sandbox_created" THEN 2
    ELSE 3

\* the command lines of the long-running service: one the policy rejects
\* (one record) and one it lets through (two records)
LogCommands == <<RmRf, GitStatus>>

\* the first commands of the long run are all rejected; from this length of
\* the buffer on every command line is sent
LogStart == LogCap - 2

LogLimits == {0, 1, DefaultLogLimit}

\* the administrator submits one command after the other and reads the log
NextLog ==
    \/ Login("api_token", api_tokens["admin"], None, "ok", 0)
    \/ \E l \in LogLimits : AdminLogsRequest(1, l)
    \/ \E i \in 1..Len(LogCommands) :
          /\ 1 \in DOMAIN active_sandboxes
          /\ Evicted < MaxEvicted
          /\ i = 1 \/ Len(json_logs) >= LogStart
          /\ ExecuteRequest(1, [session_id |-> 1,
                                command |-> LogCommands[i].command,
                                args |-> LogCommands[i].args], 0)

SpecLog == Init /\ [][NextLog]_vars

(***************************************************************************)
(* Properties.                                                             *)
(***************************************************************************)
\* the handlers that depend on get_current_session
SessionOps ==
    {"session_info", "sandbox_info", "execute", "history", "admin_sessions", "admin_logs"}

\* the step handles the request that resp' answers
Handled(ops) == now' = now /\ resp'.op \in ops

\* the session id is unknown or its expiry instant has passed, before the step
Invalid(sid) ==
    sid \notin DOMAIN active_sessions \/ now > active_sessions[sid].expires_at

LastLog == json_logs[Len(json_logs)]

\* C1: while the service runs, a sandbox is registered for a session id if
\* and only if that id is in the session registry.
C1_SandboxIffSession ==
    running => DOMAIN active_sandboxes = DOMAIN active_sessions

\* C2: a request made with a session id that is not in the registry, or whose
\* session's expiry instant has passed, is answered as invalid whether or not
\* a sweep has run, and the sessions ListActive returns are all unexpired.
C2_ExpiredNeverValid ==
    [][Handled(SessionOps) =>
          /\ Invalid(resp'.req.session_id) => resp'.code = 401
          /\ (resp'.op = "admin_sessions" /\ resp'.code = 200) =>
                \A s \in DOMAIN resp'.body : ~(now > resp'.body[s].expires_at)]_vars

\* an expired session, never swept, was just refused and lazily evicted
C2_Witness ==
    /\ resp.op \in SessionOps
    /\ resp.code = 401
    /\ LastLog.event = "session_expired"
    /\ LastLog.session_id = resp.req.session_id

\* the command line as the client typed it: the command and its arguments
RawText(r) == r.command \o (IF r.args = <<>> THEN <<>> ELSE <<Space>> \o Join(r.args))

HasMetachar(text) ==
    \E i \in 1..Len(dangerous_patterns) : Contains(dangerous_patterns[i], text)

\* C3: an invocation whose raw text, arguments included, contains a shell
\* metacharacter sequence gets a failed result and never reaches the
\* simulator.
C3_MetacharNeverExecuted ==
    (/\ resp.op = "execute"
     /\ resp.code = 200
     /\ HasMetachar(RawText(resp.req.command_request)))
    => (resp.body.response.status = "failed" /\ ~resp.body.simulated)

\* C4: with the key method, authentication succeeds if and only if the
\* trimmed key equals an authorized key.
C4_KeyExactMatchOnly ==
    (resp.op = "login" /\ resp.req.method = "ssh_key" /\ resp.code = 200)
    => (resp.body.success <=>
            \E u \in DOMAIN ssh_keys : Strip(resp.req.credentials) = ssh_keys[u])

\* C5: a request of a session handler made with an unknown, logged-out or
\* expired session id is answered 401, runs no command, appends no history
\* entry and changes no sandbox state.
C5_ValidatedFirst ==
    [][(Handled(SessionOps) /\ Invalid(resp'.req.session_id)) =>
          /\ resp'.code = 401
          /\ UNCHANGED <<active_sandboxes, command_history, dirs>>
          /\ \A i \in 1..Len(json_logs') :
                i > Len(json_logs) => json_logs'[i].event = "session_expired"]_vars

\* Execute was refused for an expired session whose sandbox is still registered
C5_Witness ==
    /\ resp.op = "execute"
    /\ resp.code = 401
    /\ resp.req.session_id \in DOMAIN active_sandboxes
    /\ resp.req.session_id \notin DOMAIN active_sessions

\* the name the policy check looks up: the first word, lower-cased
BaseName(command) ==
    LET parts == Split(Strip(command))
    IN  IF parts = <<>> THEN <<>> ELSE Lower(parts[1])

\* the command is one the policy of section 4.3 rejects
PolicyRejects(command) ==
    \/ BaseName(command) = <<>>
    \/ BaseName(command) \in BLOCKED_COMMANDS
    \/ BaseName(command) \notin AVAILABLE_TOOLS
    \/ HasMetachar(command)

RejectionReasons == {EmptyCommandMsg, BlockedMsg, UnavailableMsg, DangerousMsg}

\* C6: every policy rejection appends exactly one audit security event,
\* returns a failed result whose error stream carries the rejection reason,
\* and never reaches execution.
C6_RejectionAudited ==
    [][(/\ Handled({"execute"})
        /\ resp'.code = 200
        /\ resp'.req.session_id \in DOMAIN active_sandboxes
        /\ PolicyRejects(resp'.req.command_request.command)) =>
          LET r == resp'.body.response
              last == json_logs'[Len(json_logs')]
          IN  /\ Len(json_logs') = Len(json_logs) + 1
              /\ \A i \in 1..Len(json_logs) : json_logs'[i] = json_logs[i]
              /\ last.event = "unsafe_command_blocked"
              /\ last.audit
              /\ last.session_id = resp'.req.session_id
              /\ r.status = "failed"
              /\ r.stderr.text \in RejectionReasons
              /\ last.fields[2] = r.stderr.text
              /\ ~resp'.body.simulated
              /\ UNCHANGED command_history]_vars

\* a command with a dangerous pattern was just rejected and audited
C6_Witness ==
    /\ resp.op = "execute"
    /\ resp.code = 200
    /\ resp.body.response.stderr.text = DangerousMsg
    /\ LastLog.event = "unsafe_command_blocked"

\* C7: a command whose name is, case-insensitively, on the block-list is
\* rejected with the blocked-for-security reason in every state, also when
\* its text holds a metacharacter.
C7_BlockListFirst ==
    (/\ resp.op = "execute"
     /\ resp.code = 200
     /\ resp.req.session_id \in DOMAIN active_sandboxes
     /\ BaseName(resp.req.command_request.command) \in BLOCKED_COMMANDS)
    => /\ resp.body.response.status = "failed"
       /\ resp.body.response.stderr.text = BlockedMsg
       /\ resp.body.response.stderr.arg = BaseName(resp.req.command_request.command)

\* the blocked command "RM ; ls" was submitted twice and rejected as blocked
\* both times
C7_Witness ==
    /\ resp.op = "execute"
    /\ resp.code = 200
    /\ resp.req.command_request.command = <<"RM", " ", ";", " ", "ls">>
    /\ resp.body.response.stderr.text = BlockedMsg
    /\ Cardinality({i \in 1..Len(json_logs) :
                       /\ json_logs[i].event = "unsafe_command_blocked"
                       /\ json_logs[i].fields[1] = <<"RM", " ", ";", " ", "ls">>
                       /\ json_logs[i].fields[2] = BlockedMsg}) = 2

\* the credential equals no stored token and no authorized key
MatchesNothing(credentials) ==
    /\ \A u \in DOMAIN api_tokens : credentials # api_tokens[u]
    /\ \A u \in DOMAIN ssh_keys : Strip(credentials) # ssh_keys[u]

\* C8 (API-token method): a credential that matches no stored token and no
\* authorized key gets the generic failure, with no session id, and one
\* authentication-failure audit event.
C8_GenericFailure ==
    (/\ resp.op = "login"
     /\ resp.req.method = "api_token"
     /\ MatchesNothing(resp.req.credentials))
    => /\ resp.code = 200
       /\ ~resp.body.success
       /\ resp.body.message = "Invalid credentials"
       /\ resp.body.session_id = None
       /\ LastLog.event = "authentication_failed"

\* C9 (first step): Login with the API token "devops" succeeds and yields a
\* session id and an expiry.
C9_DevopsTokenLogin ==
    (/\ resp.op = "login"
     /\ resp.req.method = "api_token"
     /\ resp.req.credentials = <<"devops">>)
    => /\ resp.code = 200
       /\ resp.body.success
       /\ resp.body.session_id \in SessionIds
       /\ resp.body.expires_at = now + SessionTTL

\* C10: after a successful Logout the sandbox directory is absent, the
\* registration is gone and the history is gone.
C10_LogoutReclaims ==
    (resp.op = "logout" /\ resp.body.success)
    => /\ resp.req.session_id \notin dirs
       /\ resp.req.session_id \notin DOMAIN active_sandboxes
       /\ GetCommandHistory(command_history, resp.req.session_id,
                            DefaultHistoryLimit) = <<>>

\* C11: every outcome of Submit for a session that has a sandbox, policy
\* rejection included, leaves its Command Result as the newest entry of that
\* session's history and an audit event carrying the invocation id, the
\* status, the exit code and the duration as the newest event.
C11_EveryOutcomeRecorded ==
    (/\ resp.op = "execute"
     /\ resp.code = 200
     /\ resp.req.session_id \in DOMAIN active_sandboxes)
    => LET r == resp.body.response
           h == GetCommandHistory(command_history, resp.req.session_id, 0)
       IN  /\ h # <<>>
           /\ h[Len(h)] = r
           /\ LastLog.audit
           /\ LastLog.fields = <<r.command_id, r.status, r.exit_code, r.execution_time>>

\* the history of one session after its n-th result r was appended to h: the
\* newest min(n, 100) results in append order
KeepsNewest(h, h2, r) ==
    LET n == Len(h) + 1
        m == IF n < HistoryCap THEN n ELSE HistoryCap
    IN  /\ Len(h2) = m
        /\ h2[m] = r
        /\ \A i \in 1..(m - 1) : h2[i] = h[i + (n - m)]

\* C12: every session's history holds at most 100 results; an accepted
\* Submit leaves the newest min(n, 100) results in append order (the oldest
\* is evicted, the others keep their content and order), and no other step
\* changes a stored history.
C12_HistoryRing ==
    /\ [](\A s \in DOMAIN command_history : Len(command_history[s]) <= HistoryCap)
    /\ [][\A s \in (DOMAIN command_history) \cap (DOMAIN command_history') :
             IF /\ Handled({"execute"})
                /\ resp'.code = 200
                /\ resp'.req.session_id = s
                /\ resp'.body.simulated
             THEN KeepsNewest(command_history[s], command_history'[s],
                              resp'.body.response)
             ELSE command_history'[s] = command_history[s]]_vars

\* a full history just evicted its oldest result: more than 100 results were
\* appended, 100 are stored and the newest is the one just returned
C12_Witness ==
    /\ resp.op = "execute"
    /\ resp.body.simulated
    /\ Len(command_history[1]) = HistoryCap
    /\ command_history[1][HistoryCap] = resp.body.response
    /\ command_history[1][HistoryCap] # command_history[1][HistoryCap - 1]
    /\ Cardinality({i \in 1..Len(json_logs) :
                       json_logs[i].event = "command_execution_completed"}) > HistoryCap

\* the history stored for a session; none is stored for an id without one
StoredHistory(sid) ==
    IF sid \in DOMAIN command_history THEN command_history[sid] ELSE <<>>

\* C13: GetHistory with limit N > 0 returns the last min(N, stored length)
\* entries, oldest first, so never more than N and never more than the
\* capacity; with limit <= 0 it returns all stored entries; for a session
\* with no history it returns the empty list.
C13_HistoryLimit ==
    (resp.op = "history" /\ resp.code = 200)
    => LET h == StoredHistory(resp.req.session_id)
           n == resp.req.limit
           out == resp.body
       IN  /\ n > 0 => /\ Len(out) = (IF n < Len(h) THEN n ELSE Len(h))
                       /\ \A i \in 1..Len(out) : out[i] = h[Len(h) - Len(out) + i]
                       /\ Len(out) <= n
                       /\ Len(out) <= HistoryCap
           /\ n <= 0 => out = h
           /\ h = <<>> => out = <<>>

\* the default limit just cut a longer history down to its newest 50
\* entries, which are not all alike
C13_Witness ==
    /\ resp.op = "history"
    /\ resp.code = 200
    /\ resp.req.limit = DefaultHistoryLimit
    /\ Len(StoredHistory(1)) > DefaultHistoryLimit
    /\ Len(resp.body) = DefaultHistoryLimit
    /\ resp.body[DefaultHistoryLimit] # resp.body[1]

\* C14: in every state, Destroy called for any session id, once or twice in
\* a row, whether or not the id is registered and whether or not rmtree
\* succeeds, leaves the directory of that id absent and no registration for
\* it.
C14_DestroyIdempotent ==
    \A s \in SessionIds, ok1 \in BOOLEAN, ok2 \in BOOLEAN :
        LET first == CleanupSandbox(active_sandboxes, command_history, dirs,
                                    json_logs, s, ok1)
            second == CleanupSandbox(first.sandboxes, first.history, first.dirs,
                                     first.logs, s, ok2)
        IN  /\ s \notin first.dirs
            /\ s \notin DOMAIN first.sandboxes
            /\ s \notin second.dirs
            /\ s \notin DOMAIN second.sandboxes

\* C15: an invocation whose execution took longer than the configured
\* wall-clock timeout ends with the status timed-out, never failed or
\* completed.
C15_TimeoutStatus ==
    (/\ resp.op = "execute"
     /\ resp.code = 200
     /\ resp.body.simulated
     /\ resp.body.response.execution_time > MAX_EXECUTION_TIME)
    => resp.body.response.status = "timeout"

\* C16: after the shutdown handler has finished, the sandbox registry and
\* the command-history map are empty and no sandbox directory remains.
C16_ShutdownReclaimsAll ==
    resp.op = "shutdown"
    => /\ DOMAIN active_sandboxes = {}
       /\ DOMAIN command_history = {}
       /\ dirs = {}

\* the buffer l2 after k records were appended to the buffer l: the newest
\* min(n, 1000) of the n records in record order, the retained ones unchanged
Recorded(l, l2, k) ==
    LET n == Len(l) + k
        m == IF n < LogCap THEN n ELSE LogCap
    IN  /\ Len(l2) = m
        /\ \A i \in 1..(m - k) : l2[i] = l[i + (n - m)]

\* the events of the last k records of the buffer, oldest first
LastEvents(l, k) == [i \in 1..k |-> l[Len(l) - k + i].event]

\* the events a step records, read from the request it answers
StepEvents(r) ==
    IF r.op = "login" /\ r.code = 200
    THEN <<"authentication_success", "sandbox_created">>
    ELSE IF r.op = "execute" /\ r.code = 200
    THEN IF r.body.simulated
         THEN <<"command_execution_started", "command_execution_completed">>
         ELSE <<"unsafe_command_blocked">>
    ELSE <<>>

\* C18: the audit buffer holds at most 1000 events; every step leaves the
\* newest min(n, 1000) of the n events recorded so far, in record order
\* (the oldest dropped first, the retained ones unchanged, the new ones
\* last); RecentEvents(limit) returns the last min(limit, stored) of them
\* for limit > 0.
C18_LogRing ==
    /\ [](/\ Len(json_logs) <= LogCap
          /\ (resp.op = "admin_logs" /\ resp.code = 200 /\ resp.req.limit > 0) =>
                LET n == IF resp.req.limit < Len(json_logs)
                         THEN resp.req.limit ELSE Len(json_logs)
                IN  /\ Len(resp.body) = n
                    /\ \A i \in 1..n :
                          resp.body[i] = json_logs[Len(json_logs) - n + i])
    /\ [][LET new == StepEvents(resp')
          IN  /\ Recorded(json_logs, json_logs', Len(new))
              /\ LastEvents(json_logs', Len(new)) = new]_vars

\* the full buffer has dropped its two oldest records and the administrator
\* just read its newest 100
C18_Witness ==
    /\ Len(json_logs) = LogCap
    /\ json_logs[1].event = "sandbox_created"
    /\ json_logs[LogCap].event = "command_execution_completed"
    /\ resp.op = "admin_logs"
    /\ resp.code = 200
    /\ resp.req.limit = DefaultLogLimit
    /\ Len(resp.body) = DefaultLogLimit

\* the logout audit events for sid among the records a step appended
NewLogoutEvents(sid) ==
    {i \in (Len(json_logs) + 1)..Len(json_logs') :
        json_logs'[i].event = "logout" /\ json_logs'[i].session_id = sid}

\* C19: Logout answers true exactly when the id is in the session registry
\* at the time of the call; then the session is removed, the others are
\* kept and one logout audit event is emitted; for an unknown or logged-out
\* id it answers false, emits no audit event and changes no state.
C19_LogoutExactlyOnce ==
    [][Handled({"logout"}) =>
          LET sid == resp'.req.session_id
          IN  IF sid \in DOMAIN active_sessions
              THEN /\ resp'.body.success
                   /\ DOMAIN active_sessions' = DOMAIN active_sessions \ {sid}
                   /\ \A s \in DOMAIN active_sessions' :
                         active_sessions'[s] = active_sessions[s]
                   /\ \A i \in 1..Len(json_logs) : json_logs'[i] = json_logs[i]
                   /\ Cardinality(NewLogoutEvents(sid)) = 1
              ELSE /\ ~resp'.body.success
                   /\ UNCHANGED <<now, running, next_sid, active_sessions,
                                  active_sandboxes, command_history, dirs,
                                  json_logs, inflight>>]_vars

\* a second Logout of an id that was logged out before was answered false
C19_Witness ==
    /\ resp.op = "logout"
    /\ ~resp.body.success
    /\ \E i \in 1..Len(json_logs) :
          /\ json_logs[i].event = "logout"
          /\ json_logs[i].session_id = resp.req.session_id

\* C20: after a successful Authenticate the stored session's expires_at is
\* exactly 24 hours after its created_at, and the expiry returned to the
\* client equals the stored expires_at.
C20_ExpiryExactly24h ==
    (resp.op = "login" /\ resp.code = 200 /\ resp.body.success)
    => LET session == active_sessions[resp.body.session_id]
       IN  /\ session.expires_at = session.created_at + SessionTTL
           /\ resp.body.expires_at = session.expires_at

\* C21: with the API-token method the session's owner is the username of
\* the stored entry the token equals, and a request that is answered
\* succeeds exactly when the token equals a stored entry, whatever username
\* the client supplied.
C21_OwnerFromMatchedToken ==
    (resp.op = "login" /\ resp.req.method = "api_token" /\ resp.code = 200)
    => LET matched == {u \in DOMAIN api_tokens : api_tokens[u] = resp.req.credentials}
       IN  /\ resp.body.success <=> matched # {}
           /\ resp.body.success =>
                 /\ resp.body.user \in matched
                 /\ active_sessions[resp.body.session_id].username \in matched

\* the token of devops was presented with the client username admin and
\* the session belongs to devops
C21_Witness ==
    /\ resp.op = "login"
    /\ resp.code = 200
    /\ resp.req.method = "api_token"
    /\ resp.req.username = "admin"
    /\ resp.body.success
    /\ active_sessions[resp.body.session_id].username = "devops"

AdminOps == {"admin_sessions", "admin_logs"}

\* C22: an admin operation returns data exactly when the session id resolves
\* to a valid session whose owner is admin or root; for a valid session of
\* any other username it answers 403 with no sessions and no audit events.
C22_AdminOnly ==
    resp.op \in AdminOps
    => LET sid == resp.req.session_id
           valid == sid \in DOMAIN active_sessions
       IN  /\ resp.code \in {200, 401, 403}
           /\ resp.code = 401 <=> ~valid
           /\ resp.code = 200 <=>
                 (valid /\ active_sessions[sid].username \in {"admin", "root"})
           /\ resp.code # 200 =>
                 resp.body \in {"Admin access required", "Invalid or expired session"}

\* the valid session of devops asked for the audit log and was refused
C22_Witness ==
    /\ resp.op = "admin_logs"
    /\ resp.code = 403
    /\ resp.req.session_id \in DOMAIN active_sessions
    /\ active_sessions[resp.req.session_id].username = "devops"
    /\ ~(now > active_sessions[resp.req.session_id].expires_at)

\* C23: ListActive returns exactly the tracked sessions whose expiry has not
\* passed, each as stored, and leaves exactly those in the registry.
C23_ListActiveSweeps ==
    [][(Handled({"admin_sessions"}) /\ resp'.code = 200) =>
          LET unexpired == {s \in DOMAIN active_sessions :
                               ~(now > active_sessions[s].expires_at)}
          IN  /\ DOMAIN resp'.body = unexpired
              /\ \A s \in unexpired :
                    /\ resp'.body[s].username = active_sessions[s].username
                    /\ resp'.body[s].expires_at = active_sessions[s].expires_at
                    /\ resp'.body[s].created_at = active_sessions[s].created_at
              /\ active_sessions' = resp'.body
              /\ \A s \in DOMAIN active_sessions' :
                    ~(now' > active_sessions'[s].expires_at)]_vars

\* the administrator listed the sessions and the sweep evicted an expired
\* session: its sandbox is still registered and neither a logout nor a
\* lazy expiry was ever recorded for it
C23_Witness ==
    /\ resp.op = "admin_sessions"
    /\ resp.code = 200
    /\ \E s \in (DOMAIN active_sandboxes) \ (DOMAIN active_sessions) :
          \A i \in 1..Len(json_logs) :
              json_logs[i].event \in {"logout", "session_expired"} =>
                  json_logs[i].session_id # s

\* the handlers whose only effect on the session registry is validate_session
ValidatingOps == {"session_info", "sandbox_info", "execute", "history", "admin_logs"}

\* the audit records the step appended
NewRecords == {i \in 1..Len(json_logs') : i > Len(json_logs)}

\* C24: validating an expired session deletes it and emits one
\* session_expired audit event; validating an unexpired session sets its
\* last_activity to now and leaves its owner, auth method, created_at and
\* expires_at unchanged; every other session is unchanged in both cases.
C24_ValidateFrame ==
    [][(Handled(ValidatingOps) /\ resp'.req.session_id \in DOMAIN active_sessions) =>
          LET sid == resp'.req.session_id
              session == active_sessions[sid]
          IN  /\ \A s \in DOMAIN active_sessions \ {sid} :
                    /\ s \in DOMAIN active_sessions'
                    /\ active_sessions'[s] = active_sessions[s]
              /\ IF now > session.expires_at
                 THEN /\ DOMAIN active_sessions' = DOMAIN active_sessions \ {sid}
                      /\ Cardinality(NewRecords) = 1
                      /\ \A i \in NewRecords :
                            /\ json_logs'[i].event = "session_expired"
                            /\ json_logs'[i].session_id = sid
                 ELSE /\ DOMAIN active_sessions' = DOMAIN active_sessions
                      /\ active_sessions'[sid].last_activity = now
                      /\ active_sessions'[sid].username = session.username
                      /\ active_sessions'[sid].auth_method = session.auth_method
                      /\ active_sessions'[sid].created_at = session.created_at
                      /\ active_sessions'[sid].expires_at = session.expires_at
                      /\ \A i \in NewRecords :
                            json_logs'[i].event # "session_expired"]_vars

\* a session was validated some time after its login, next to a session
\* nobody has used in the meantime
C24_Witness ==
    /\ resp.op \in ValidatingOps
    /\ resp.code = 200
    /\ resp.req.session_id \in DOMAIN active_sessions
    /\ LET session == active_sessions[resp.req.session_id]
       IN  /\ session.last_activity = now
           /\ session.last_activity > session.created_at
           /\ \E s \in DOMAIN active_sessions \ {resp.req.session_id} :
                 active_sessions[s].last_activity < now

\* the entry of key k is the same in the maps f and g, or absent from both
SameEntry(f, g, k) ==
    /\ k \in DOMAIN f <=> k \in DOMAIN g
    /\ k \in DOMAIN f => f[k] = g[k]

\* the requests made on behalf of one session
OwnSessionOps == {"session_info", "sandbox_info", "execute", "history", "logout"}

\* C25: Execute, GetHistory, a validating request and Logout made with
\* session id A leave the session record, the sandbox registration, the
\* sandbox directory and the command history of every other session B as
\* they were.
C25_SessionsIndependent ==
    [][Handled(OwnSessionOps) =>
          \A B \in SessionIds \ {resp'.req.session_id} :
              /\ SameEntry(active_sessions, active_sessions', B)
              /\ SameEntry(active_sandboxes, active_sandboxes', B)
              /\ SameEntry(command_history, command_history', B)
              /\ B \in dirs <=> B \in dirs']_vars

\* one session has logged out and lost its sandbox while the other still
\* has its session, its sandbox, its directory and a command in its history
C25_Witness ==
    /\ resp.op = "logout"
    /\ resp.body.success
    /\ resp.req.session_id \notin DOMAIN active_sandboxes
    /\ \E B \in DOMAIN active_sessions :
          /\ B \in DOMAIN active_sandboxes
          /\ B \in dirs
          /\ B \in DOMAIN command_history
          /\ Len(command_history[B]) > 0

\* C26: the command count Get session info reports is the number of results
\* the session's history retains, for every history length up to the
\* capacity of the ring.
C26_CommandCount ==
    (resp.op = "session_info" /\ resp.code = 200)
    => resp.body.commands_executed = Len(command_history[resp.req.session_id])

\* Logout has answered true for the session id
LoggedOut(s) ==
    \E i \in 1..Len(json_logs) :
        json_logs[i].event = "logout" /\ json_logs[i].session_id = s

\* C27: whatever the interleaving of the requests of one session, every
\* executed command's result is appended to the history (only the oldest
\* results are evicted, none is lost), and a session that was logged out
\* keeps neither a sandbox registration nor a history, whether or not an
\* Execute was under way when it logged out.
C27_SerializedPerSession ==
    /\ [](\A s \in SessionIds :
             LoggedOut(s) =>
                 s \notin DOMAIN active_sandboxes /\ s \notin DOMAIN command_history)
    /\ [][(/\ Handled({"execute"})
           /\ resp'.code = 200
           /\ resp'.body.simulated) =>
             LET s == resp'.req.session_id
             IN  /\ s \in DOMAIN command_history
                 /\ s \in DOMAIN command_history'
                 /\ KeepsNewest(command_history[s], command_history'[s],
                                resp'.body.response)]_vars

\* the statuses an invocation ends in
TerminalStatuses == {"completed", "failed", "timeout"}

\* C28: every result Submit returns has a terminal status, and the result
\* of an invocation that passed the policy check is completed if and only
\* if its exit code is zero, and failed otherwise.
C28_TerminalStatus ==
    (resp.op = "execute" /\ resp.code = 200)
    => LET r == resp.body.response
       IN  /\ r.status \in TerminalStatuses
           /\ resp.body.simulated =>
                 /\ r.status = "completed" <=> r.exit_code = 0
                 /\ r.status = "failed" <=> r.exit_code # 0

\* a command that passed the policy check was executed and returned exit
\* code zero
C28_Witness ==
    /\ resp.op = "execute"
    /\ resp.code = 200
    /\ resp.body.simulated
    /\ resp.body.response.exit_code = 0
    /\ resp.body.response.status = "completed"

\* C29: Submit for a session id without a registered sandbox returns a
\* failed result whose error stream says that no sandbox exists for the
\* session; the policy check and the simulator are not run (no audit record
\* is written) and no sandbox, directory or history entry is created.
C29_NoSandboxFails ==
    [][(/\ Handled({"execute"})
        /\ resp'.code = 200
        /\ resp'.req.session_id \notin DOMAIN active_sandboxes) =>
          LET r == resp'.body.response
          IN  /\ r.status = "failed"
              /\ r.stderr.text = "No sandbox found for session"
              /\ r.stdout = NoOutput
              /\ ~resp'.body.simulated
              /\ UNCHANGED <<active_sandboxes, command_history, dirs, json_logs>>]_vars

\* a command line the policy rejects was submitted for a session without a
\* sandbox and was answered with the missing sandbox, not with the rejection
C29_Witness ==
    /\ resp.op = "execute"
    /\ resp.code = 200
    /\ resp.req.session_id \notin DOMAIN active_sandboxes
    /\ ~IsCommandSafe(resp.req.command_request.command).safe
    /\ resp.body.response.stderr.text = "No sandbox found for session"

\* C30: no two results in a session's history carry the same command id,
\* and results of different sessions carry different command ids.
C30_UniqueCommandIds ==
    \A s, u \in DOMAIN command_history :
        \A i \in 1..Len(command_history[s]), j \in 1..Len(command_history[u]) :
            (s # u \/ i # j) =>
                command_history[s][i].command_id # command_history[u][j].command_id

\* C31: the session ids that have a command-history list are exactly the
\* session ids that have a registered sandbox, in every reachable state.
C31_HistoryIffSandbox ==
    DOMAIN command_history = DOMAIN active_sandboxes

\* a Logout whose directory removal failed left both the registration and
\* the history list of the logged-out session in place
C31_Witness ==
    /\ resp.op = "logout"
    /\ resp.body.success
    /\ resp.req.session_id \in DOMAIN active_sandboxes
    /\ resp.req.session_id \in DOMAIN command_history
    /\ resp.req.session_id \notin DOMAIN active_sessions

\* the audit events of one invocation
InvocationEvents ==
    {"unsafe_command_blocked", "command_execution_started",
     "command_execution_completed", "command_execution_error"}

\* the last k records of the buffer, oldest first
LastRecords(l, k) == [i \in 1..k |-> l[Len(l) - k + i]]

\* C32: a Submit for a session with a sandbox appends either one
\* unsafe_command_blocked event (the policy rejected the command) or one
\* command_execution_started event directly followed by one
\* command_execution_completed event of the same session and invocation,
\* never both kinds; no other step records an invocation event, so every
\* completed event in the log directly follows its started event.
C32_StartedThenCompleted ==
    /\ [](\A i \in 1..Len(json_logs) :
             json_logs[i].event = "command_execution_completed" =>
                 IF i = 1 THEN Len(json_logs) = LogCap
                 ELSE /\ json_logs[i - 1].event = "command_execution_started"
                      /\ json_logs[i - 1].session_id = json_logs[i].session_id
                      /\ json_logs[i - 1].fields[1] = json_logs[i].fields[1])
    /\ [][IF /\ Handled({"execute"})
             /\ resp'.code = 200
             /\ resp'.req.session_id \in DOMAIN active_sandboxes
          THEN LET sid == resp'.req.session_id
                   safe == IsCommandSafe(resp'.req.command_request.command).safe
                   k == IF safe THEN 2 ELSE 1
                   new == LastRecords(json_logs', k)
               IN  /\ Recorded(json_logs, json_logs', k)
                   /\ \A i \in 1..k : new[i].session_id = sid /\ new[i].audit
                   /\ IF safe
                      THEN /\ new[1].event = "command_execution_started"
                           /\ new[2].event \in {"command_execution_completed",
                                                 "command_execution_error"}
                           /\ new[1].fields[1] = resp'.body.response.command_id
                           /\ new[2].fields[1] = resp'.body.response.command_id
                      ELSE new[1].event = "unsafe_command_blocked"
          ELSE \A k \in 0..2 :
                   Recorded(json_logs, json_logs', k) =>
                       \A i \in 1..k :
                           LastRecords(json_logs', k)[i].event \notin InvocationEvents]_vars

\* a session had one command rejected and then another executed: the log
\* holds its blocked event and, later, its started and completed events
C32_Witness ==
    /\ resp.op = "execute"
    /\ resp.code = 200
    /\ resp.body.simulated
    /\ LastLog.event = "command_execution_completed"
    /\ \E i \in 1..Len(json_logs) :
          /\ json_logs[i].event = "unsafe_command_blocked"
          /\ json_logs[i].session_id = resp.req.session_id

\* C33: an Execute request of a validated session whose body names another
\* session id is answered 400 and runs nothing: no sandbox, history or audit
\* record changes; a request that is executed names the validated session in
\* its body and touches the history of that session only.
C33_BodySessionMustMatch ==
    [][(Handled({"execute"}) /\ resp'.code # 401) =>
          LET sid == resp'.req.session_id
              body == resp'.req.command_request.session_id
          IN  IF body # sid
              THEN /\ resp'.code = 400
                   /\ UNCHANGED <<active_sandboxes, command_history, dirs, json_logs>>
              ELSE /\ resp'.code = 200
                   /\ \A b \in SessionIds \ {sid} :
                         SameEntry(command_history, command_history', b)]_vars

\* a valid session sent a command whose body names the other live session,
\* which has a sandbox and a history, and was answered 400
C33_Witness ==
    /\ resp.op = "execute"
    /\ resp.code = 400
    /\ resp.req.session_id \in DOMAIN active_sessions
    /\ resp.req.command_request.session_id # resp.req.session_id
    /\ resp.req.command_request.session_id \in DOMAIN active_sessions
    /\ resp.req.command_request.session_id \in DOMAIN active_sandboxes
    /\ resp.req.command_request.session_id \in DOMAIN command_history
====
